---- MODULE Spec2Model ----
(***************************************************************************)
(* A model of the stateful and algorithmic parts of the data-analysis      *)
(* single-page application: the natural-language query section, the        *)
(* effect-driven analysis runs of DataAnalyzer and BusinessMetrics, the    *)
(* median routines, the lexicon sentiment scoring and the correlation      *)
(* matrix.  Each component has its own specification over its own          *)
(* variables; the variables of the other components stay at their          *)
(* constructed values.                                                     *)
(***************************************************************************)
EXTENDS Integers, Sequences, FiniteSets, TLC

VARIABLES
  \* NLQuerySection / NLQueryInput / NLQueryResponse
  nlIsLoading,     \* NLQuerySection: useState isLoading
  nlResponse,      \* NLQuerySection: useState response
  nlQuery,         \* NLQueryInput: useState query
  nlRendered,      \* what the last committed render showed: isLoading prop, response prop
  nlRuns,          \* handleQuery invocations that have not returned
  nlNextId,        \* number of the next handleQuery invocation
  nlLastApplied,   \* number of the invocation whose setResponse ran last
  \* DataAnalyzer
  daData,          \* the data prop: the number of the object passed (1, 2, ...)
  daEffectPending, \* the effect of the last commit ([data] changed, or mount) has not run yet
  daIsLoading,     \* useState isLoading
  daError,         \* useState error
  daAnalysis,      \* useState analysis
  daCleanedData,   \* useState cleanedData
  daRuns,          \* processData invocations, by the data they were started for
  \* BusinessMetrics (categories/business)
  bmData,          \* the data prop
  bmEffectPending, \* the effect of the last commit has not run yet
  bmIsAnalyzing,   \* useState isAnalyzing
  bmAnalysisResults, \* useState analysisResults
  bmRuns,          \* analyzeData invocations, by the data they were started for
  \* the median routines
  mdValues,        \* the numbers of the field (field.value / dataset)
  mdFieldStats,    \* StatsSummary.calculateFieldStats: stats.median
  mdDescriptive,   \* AnalysisEngine.calculateDescriptiveStats: median
  mdStats,         \* StatisticalAnalysis.calculateStats: median
  mdStatistics,    \* DataAnalyzer.generateStatistics: calculateMedian
  \* SentimentAnalysis
  saField,         \* the field prop: field.value
  saCustomLexicons, \* the customLexicons prop
  saEffectPending, \* the effect of the last commit has not run yet
  saSentiments,    \* useState sentiments
  saStats,         \* useState stats
  saLoading,       \* useState loading
  saError,         \* useState error
  saLexiconInfo,   \* useState lexiconInfo
  \* CorrelationMatrix / CorrelationCell
  cmSelectedFields, \* CorrelationMatrix: useState selectedFields
  cmNotified,      \* the selection last passed to onFieldSelectionChange
  cmValue,         \* CorrelationCell: the value prop of the cell
  cmDescription,   \* CorrelationCell: the description rendered for the value
  \* TextSummarization
  tsField,         \* the field prop: field.value
  tsEffectPending, \* the effect of the last commit has not run yet
  tsSummary,       \* useState summary: the texts of the selected sentences
  tsStats,         \* useState stats
  tsLoading,       \* useState loading
  tsError,         \* useState error
  tsIsGenerating,  \* useState isGenerating
  \* FeatureComparison
  fcNumericFields, \* the names of data.fields of type 'number' (numericFields)
  fcSelectedFeatures, \* useState selectedFeatures
  fcComparisonResults, \* useState comparisonResults
  fcIsAnalyzing,   \* useState isAnalyzing
  fcError,         \* useState error
  fcThrown,        \* the value the last compareFeatures run threw inside its try
  \* AnalysisEngine
  aeFields,        \* the fields argument of the constructor
  aeState,         \* "new" before the constructor ran, then "constructed" or "failed"
  aeError,         \* the error the constructor threw
  aeCategory,      \* the category argument of the last analyze call
  aeOutcome        \* how the promise of the last analyze call settled

nlVars == <<nlIsLoading, nlResponse, nlQuery, nlRendered, nlRuns, nlNextId, nlLastApplied>>

daVars == <<daData, daEffectPending, daIsLoading, daError, daAnalysis, daCleanedData, daRuns>>
bmVars == <<bmData, bmEffectPending, bmIsAnalyzing, bmAnalysisResults, bmRuns>>

mdVars == <<mdValues, mdFieldStats, mdDescriptive, mdStats, mdStatistics>>

saVars == <<saField, saCustomLexicons, saEffectPending, saSentiments, saStats, saLoading,
            saError, saLexiconInfo>>

cmVars == <<cmSelectedFields, cmNotified, cmValue, cmDescription>>

tsVars == <<tsField, tsEffectPending, tsSummary, tsStats, tsLoading, tsError, tsIsGenerating>>

fcVars == <<fcNumericFields, fcSelectedFeatures, fcComparisonResults, fcIsAnalyzing, fcError, fcThrown>>

aeVars == <<aeFields, aeState, aeError, aeCategory, aeOutcome>>

vars == <<nlVars, daVars, bmVars, mdVars, saVars, cmVars, tsVars, fcVars, aeVars>>

\* a step of one component leaves the other components alone
NLOnly == UNCHANGED <<daVars, bmVars, mdVars, saVars, cmVars, tsVars, fcVars, aeVars>>
DAOnly == UNCHANGED <<nlVars, bmVars, mdVars, saVars, cmVars, tsVars, fcVars, aeVars>>
BMOnly == UNCHANGED <<nlVars, daVars, mdVars, saVars, cmVars, tsVars, fcVars, aeVars>>
MDOnly == UNCHANGED <<nlVars, daVars, bmVars, saVars, cmVars, tsVars, fcVars, aeVars>>
SAOnly == UNCHANGED <<nlVars, daVars, bmVars, mdVars, cmVars, tsVars, fcVars, aeVars>>
CMOnly == UNCHANGED <<nlVars, daVars, bmVars, mdVars, saVars, tsVars, fcVars, aeVars>>
TSOnly == UNCHANGED <<nlVars, daVars, bmVars, mdVars, saVars, cmVars, fcVars, aeVars>>
FCOnly == UNCHANGED <<nlVars, daVars, bmVars, mdVars, saVars, cmVars, tsVars, aeVars>>
AEOnly == UNCHANGED <<nlVars, daVars, bmVars, mdVars, saVars, cmVars, tsVars, fcVars>>

----------------------------------------------------------------------------
(* Helpers *)

SeqsUpTo(S, n) == UNION {[1..k -> S] : k \in 0..n}

Abs(x) == IF x < 0 THEN -x ELSE x

----------------------------------------------------------------------------
(* NLQueryInput, NLQuerySection, NLQueryResponse *)

\* longest query text typed into the input
MaxQueryLen == 2
\* number of handleQuery invocations explored
MaxQueries == 3

Chars == {" ", "a"}
Queries == SeqsUpTo(Chars, MaxQueryLen)

\* String.prototype.trim on a sequence of characters
RECURSIVE TrimLeft(_)
TrimLeft(s) == IF s # <<>> /\ Head(s) = " " THEN TrimLeft(Tail(s)) ELSE s

RECURSIVE TrimRight(_)
TrimRight(s) ==
  IF s # <<>> /\ s[Len(s)] = " " THEN TrimRight(SubSeq(s, 1, Len(s) - 1)) ELSE s

Trim(s) == TrimRight(TrimLeft(s))

\* JS values held by `response`: null, a resolved result {answer}, or {error}
NullResponse ==
  [isNull |-> TRUE, hasAnswer |-> FALSE, answer |-> "", hasError |-> FALSE, error |-> ""]
ResultResponse(a) ==
  [isNull |-> FALSE, hasAnswer |-> TRUE, answer |-> a, hasError |-> FALSE, error |-> ""]
ErrorResponse(m) ==
  [isNull |-> FALSE, hasAnswer |-> FALSE, answer |-> "", hasError |-> TRUE, error |-> m]

\* what processNaturalLanguageQuery may resolve with
Answers == {"answer1", "answer2"}

\* what processNaturalLanguageQuery may reject with: an Error (whose message
\* may be the empty string, as for `new Error()`) or a value that is no Error
NoThrow == [isError |-> FALSE, message |-> ""]
Thrown ==
  { [isError |-> TRUE, message |-> "boom"],
    [isError |-> TRUE, message |-> ""],
    [isError |-> FALSE, message |-> "rejected"] }

\* catch (error): { error: error instanceof Error ? error.message : 'Failed to process query' }
CatchResponse(t) ==
  ErrorResponse(IF t.isError THEN t.message ELSE "Failed to process query")

\* NLQueryResponse: which view the component returns for a response
NLQueryResponse(resp) ==
  IF resp.isNull THEN "nothing"
  ELSE IF resp.hasError /\ resp.error # "" THEN "error"   \* if (response.error)
  ELSE "answer"

RenderOf(loading, resp) == [isLoading |-> loading, response |-> resp]

NLInit ==
  /\ nlIsLoading = FALSE
  /\ nlResponse = NullResponse
  /\ nlQuery = <<>>
  /\ nlRendered = RenderOf(FALSE, NullResponse)
  /\ nlRuns = {}
  /\ nlNextId = 1
  /\ nlLastApplied = 0

\* input onChange; the input is disabled while the rendered isLoading is true
SetQuery(q) ==
  /\ ~nlRendered.isLoading
  /\ q # nlQuery
  /\ nlQuery' = q
  /\ UNCHANGED <<nlIsLoading, nlResponse, nlRendered, nlRuns, nlNextId, nlLastApplied>>
  /\ NLOnly

HandleQueryWithoutSetIsLoading(q) ==
  /\ nlRuns' = nlRuns \cup
       {[id |-> nlNextId, query |-> q, status |-> "pending", outcome |-> "none",
         result |-> NullResponse, thrown |-> NoThrow]}
  /\ nlNextId' = nlNextId + 1
  /\ nlRendered' = RenderOf(nlIsLoading, nlResponse)
  /\ UNCHANGED <<nlIsLoading, nlResponse, nlQuery, nlLastApplied>>

\* handleQuery up to its first await: setIsLoading(true), then the call of
\* processNaturalLanguageQuery.  It runs inside the submit event, whose state
\* updates React commits before the event returns.
HandleQuery(q) ==
  /\ nlIsLoading' = TRUE
  /\ nlRuns' = nlRuns \cup
       {[id |-> nlNextId, query |-> q, status |-> "pending", outcome |-> "none",
         result |-> NullResponse, thrown |-> NoThrow]}
  /\ nlNextId' = nlNextId + 1
  /\ nlRendered' = RenderOf(TRUE, nlResponse)
  /\ UNCHANGED <<nlResponse, nlQuery, nlLastApplied>>

HandleSubmitNoGuardOnLoading(q, loading) == Trim(q) # <<>>

\* handleSubmit's early return: if (!query.trim() || isLoading) return;
HandleSubmitPasses(q, loading) == Trim(q) # <<>> /\ ~loading

HandleSubmit ==
  /\ nlNextId <= MaxQueries
  /\ HandleSubmitPasses(nlQuery, nlRendered.isLoading)
  /\ HandleQuery(Trim(nlQuery))
  /\ NLOnly

\* the promise of processNaturalLanguageQuery settles
PromiseResolve(r, a) ==
  /\ r \in nlRuns /\ r.status = "pending"
  /\ nlRuns' = (nlRuns \ {r}) \cup {[r EXCEPT !.status = "resolved", !.outcome = "resolved",
                                      !.result = ResultResponse(a)]}
  /\ UNCHANGED <<nlIsLoading, nlResponse, nlQuery, nlRendered, nlNextId, nlLastApplied>>
  /\ NLOnly

PromiseReject(r, t) ==
  /\ r \in nlRuns /\ r.status = "pending"
  /\ nlRuns' = (nlRuns \ {r}) \cup {[r EXCEPT !.status = "rejected", !.outcome = "rejected",
                                      !.thrown = t]}
  /\ UNCHANGED <<nlIsLoading, nlResponse, nlQuery, nlRendered, nlNextId, nlLastApplied>>
  /\ NLOnly

\* try: setResponse(result)
ContinueTry(r) ==
  /\ r \in nlRuns /\ r.status = "resolved"
  /\ nlResponse' = r.result
  /\ nlLastApplied' = r.id
  /\ nlRuns' = (nlRuns \ {r}) \cup {[r EXCEPT !.status = "responded"]}
  /\ UNCHANGED <<nlIsLoading, nlQuery, nlRendered, nlNextId>>
  /\ NLOnly

\* catch: setResponse({error: ...})
ContinueCatch(r) ==
  /\ r \in nlRuns /\ r.status = "rejected"
  /\ nlResponse' = CatchResponse(r.thrown)
  /\ nlLastApplied' = r.id
  /\ nlRuns' = (nlRuns \ {r}) \cup {[r EXCEPT !.status = "responded"]}
  /\ UNCHANGED <<nlIsLoading, nlQuery, nlRendered, nlNextId>>
  /\ NLOnly

\* finally: setIsLoading(false); handleQuery returns
Finally(r) ==
  /\ r \in nlRuns /\ r.status = "responded"
  /\ nlIsLoading' = FALSE
  /\ nlRuns' = nlRuns \ {r}
  /\ UNCHANGED <<nlResponse, nlQuery, nlRendered, nlNextId, nlLastApplied>>
  /\ NLOnly

\* React commits a render of the current state
NLRender ==
  /\ nlRendered # RenderOf(nlIsLoading, nlResponse)
  /\ nlRendered' = RenderOf(nlIsLoading, nlResponse)
  /\ UNCHANGED <<nlIsLoading, nlResponse, nlQuery, nlRuns, nlNextId, nlLastApplied>>
  /\ NLOnly

NLContinue == \E r \in nlRuns : ContinueTry(r) \/ ContinueCatch(r) \/ Finally(r)

NLNext ==
  \/ \E q \in Queries : SetQuery(q)
  \/ HandleSubmit
  \/ \E r \in nlRuns, a \in Answers : PromiseResolve(r, a)
  \/ \E r \in nlRuns, t \in Thrown : PromiseReject(r, t)
  \/ \E r \in nlRuns : ContinueTry(r)
  \/ \E r \in nlRuns : ContinueCatch(r)
  \/ \E r \in nlRuns : Finally(r)
  \/ NLRender

----------------------------------------------------------------------------
(* DataAnalyzer: useEffect(() => { processData() }, [data]) *)

\* number of objects passed as the data prop
MaxData == 3

DataIds == 1..MaxData

\* a state value computed from the data prop numbered `d` (0: none yet)
NoResult == [isNull |-> TRUE, from |-> 0]
ResultFrom(d) == [isNull |-> FALSE, from |-> d]

NoError == [isNull |-> TRUE, message |-> ""]
ErrorOf(m) == [isNull |-> FALSE, message |-> m]

\* catch (err): err instanceof Error ? err.message : 'An error occurred during analysis'
ProcessDataCatch(t) ==
  ErrorOf(IF t.isError THEN t.message ELSE "An error occurred during analysis")

DAInit ==
  /\ daData = 1
  /\ daEffectPending = TRUE
  /\ daIsLoading = TRUE
  /\ daError = NoError
  /\ daAnalysis = NoResult
  /\ daCleanedData = NoResult
  /\ daRuns = [d \in DataIds |-> "none"]

\* the parent passes a new data object; React re-renders and schedules the effect
DADataChange ==
  /\ ~daEffectPending
  /\ daData < MaxData
  /\ daData' = daData + 1
  /\ daEffectPending' = TRUE
  /\ UNCHANGED <<daIsLoading, daError, daAnalysis, daCleanedData, daRuns>>
  /\ DAOnly

ProcessDataSynchronously(d) ==
  /\ daIsLoading' = FALSE
  /\ daError' = NoError
  /\ daCleanedData' = ResultFrom(d)
  /\ daAnalysis' = ResultFrom(d)
  /\ daRuns' = [daRuns EXCEPT ![d] = "finishedOk"]

\* processData up to its await: setIsLoading(true); setError(null); cleanData(data.fields)
ProcessDataStart(d) ==
  /\ daIsLoading' = TRUE
  /\ daError' = NoError
  /\ daRuns' = [daRuns EXCEPT ![d] = "pending"]
  /\ UNCHANGED <<daAnalysis, daCleanedData>>

\* the effect body: processData() is called and the effect returns
DAEffect ==
  /\ daEffectPending
  /\ daEffectPending' = FALSE
  /\ ProcessDataStart(daData)
  /\ UNCHANGED daData
  /\ DAOnly

\* cleanData resolves: setCleanedData, the analysis result is built (a helper
\* may throw, which the catch turns into setError), setAnalysis, and finally
\* setIsLoading(false)
ProcessDataResolved(d, t) ==
  /\ daRuns[d] = "pending"
  /\ daCleanedData' = ResultFrom(d)
  /\ IF t = NoThrow
       THEN /\ daAnalysis' = ResultFrom(d)
            /\ daError' = daError
            /\ daRuns' = [daRuns EXCEPT ![d] = "finishedOk"]
       ELSE /\ daAnalysis' = daAnalysis
            /\ daError' = ProcessDataCatch(t)
            /\ daRuns' = [daRuns EXCEPT ![d] = "finishedError"]
  /\ daIsLoading' = FALSE
  /\ UNCHANGED <<daData, daEffectPending>>
  /\ DAOnly

\* cleanData rejects: catch setError, finally setIsLoading(false)
ProcessDataRejected(d, t) ==
  /\ daRuns[d] = "pending"
  /\ daError' = ProcessDataCatch(t)
  /\ daIsLoading' = FALSE
  /\ daRuns' = [daRuns EXCEPT ![d] = "finishedError"]
  /\ UNCHANGED <<daData, daEffectPending, daAnalysis, daCleanedData>>
  /\ DAOnly

DANext ==
  \/ DADataChange
  \/ DAEffect
  \/ \E d \in DataIds, t \in Thrown \cup {NoThrow} : ProcessDataResolved(d, t)
  \/ \E d \in DataIds, t \in Thrown : ProcessDataRejected(d, t)

----------------------------------------------------------------------------
(* BusinessMetrics: useEffect(() => { analyzeData() }, [data]) *)

BMInit ==
  /\ bmData = 1
  /\ bmEffectPending = TRUE
  /\ bmIsAnalyzing = FALSE
  /\ bmAnalysisResults = ResultFrom(0)   \* useState([])
  /\ bmRuns = [d \in DataIds |-> "none"]

BMDataChange ==
  /\ ~bmEffectPending
  /\ bmData < MaxData
  /\ bmData' = bmData + 1
  /\ bmEffectPending' = TRUE
  /\ UNCHANGED <<bmIsAnalyzing, bmAnalysisResults, bmRuns>>
  /\ BMOnly

\* analyzeData up to its await: setIsAnalyzing(true); the 1500 ms timer is started
AnalyzeDataStart(d) ==
  /\ bmIsAnalyzing' = TRUE
  /\ bmRuns' = [bmRuns EXCEPT ![d] = "waiting"]
  /\ UNCHANGED bmAnalysisResults

BMEffect ==
  /\ bmEffectPending
  /\ bmEffectPending' = FALSE
  /\ AnalyzeDataStart(bmData)
  /\ UNCHANGED bmData
  /\ BMOnly

\* the timer fires (timers of equal delay fire in the order they were set):
\* the results are computed from the data the run closed over,
\* setAnalysisResults(results); setIsAnalyzing(false)
AnalyzeDataTimerFires(d) ==
  /\ bmRuns[d] = "waiting"
  /\ \A e \in DataIds : e < d => bmRuns[e] # "waiting"
  /\ bmAnalysisResults' = ResultFrom(d)
  /\ bmIsAnalyzing' = FALSE
  /\ bmRuns' = [bmRuns EXCEPT ![d] = "finished"]
  /\ UNCHANGED <<bmData, bmEffectPending>>
  /\ BMOnly

BMNext ==
  \/ BMDataChange
  \/ BMEffect
  \/ \E d \in DataIds : AnalyzeDataTimerFires(d)

----------------------------------------------------------------------------
(* The median routines.  A median is held as twice its value, so that the    *)
(* mean of two integers, (a + b) / 2, stays an integer.                      *)

\* longest list of numbers
MaxValues == 3
\* largest number in a list
MaxValue == 3

Numbers == 0..MaxValue
NumberLists == SeqsUpTo(Numbers, MaxValues)

\* [...values].sort((a, b) => a - b)
RECURSIVE InsertSorted(_, _)
InsertSorted(x, s) ==
  IF s = <<>> THEN <<x>>
  ELSE IF x < Head(s) THEN <<x>> \o s
  ELSE <<Head(s)>> \o InsertSorted(x, Tail(s))

RECURSIVE SortAscending(_)
SortAscending(s) ==
  IF s = <<>> THEN <<>> ELSE InsertSorted(Head(s), SortAscending(Tail(s)))

\* the element at a 0-based index of a JS array
At(s, i) == s[i + 1]

NotRun == [kind |-> "notRun", twice |-> 0]
MedianValue(t) == [kind |-> "value", twice |-> t]
MedianUndefined == [kind |-> "undefined", twice |-> 0]
MedianThrows == [kind |-> "throws", twice |-> 0]
MedianNull == [kind |-> "null", twice |-> 0]

\* StatsSummary.calculateFieldStats, field.type === 'number':
\* stats.median = sorted[Math.floor(sorted.length / 2)], left unset when
\* there are no values
CalculateFieldStatsMedian(values) ==
  IF Len(values) > 0
    THEN LET sorted == SortAscending(values)
         IN  MedianValue(2 * At(sorted, Len(sorted) \div 2))
    ELSE MedianUndefined

\* AnalysisEngine.calculateDescriptiveStats:
\* median = sorted[Math.floor(sorted.length / 2)]; an empty field throws
CalculateDescriptiveStatsMedian(values) ==
  IF Len(values) = 0 THEN MedianThrows
  ELSE LET sorted == SortAscending(values)
       IN  MedianValue(2 * At(sorted, Len(sorted) \div 2))

\* StatisticalAnalysis.calculateStats: stats is null without numbers;
\* sorted.length % 2 === 0 ? (sorted[n/2 - 1] + sorted[n/2]) / 2 : sorted[floor(n/2)]
CalculateStatsMedian(values) ==
  IF Len(values) = 0 THEN MedianNull
  ELSE LET sorted == SortAscending(values)
           n == Len(sorted)
       IN  IF n % 2 = 0
             THEN MedianValue(At(sorted, (n \div 2) - 1) + At(sorted, n \div 2))
             ELSE MedianValue(2 * At(sorted, n \div 2))

\* DataAnalyzer calculateMedian: 0 for an empty list
CalculateMedian(values) ==
  IF Len(values) = 0 THEN MedianValue(0)
  ELSE LET sorted == SortAscending(values)
           middle == Len(sorted) \div 2
       IN  IF Len(sorted) % 2 = 0
             THEN MedianValue(At(sorted, middle - 1) + At(sorted, middle))
             ELSE MedianValue(2 * At(sorted, middle))

MDIdle ==
  /\ mdFieldStats = NotRun
  /\ mdDescriptive = NotRun
  /\ mdStats = NotRun
  /\ mdStatistics = NotRun

MDRest == mdValues = <<>> /\ MDIdle

MDInit == mdValues \in NumberLists /\ MDIdle

CalculateFieldStats ==
  /\ mdFieldStats = NotRun
  /\ mdFieldStats' = CalculateFieldStatsMedian(mdValues)
  /\ UNCHANGED <<mdValues, mdDescriptive, mdStats, mdStatistics>>
  /\ MDOnly

CalculateDescriptiveStats ==
  /\ mdDescriptive = NotRun
  /\ mdDescriptive' = CalculateDescriptiveStatsMedian(mdValues)
  /\ UNCHANGED <<mdValues, mdFieldStats, mdStats, mdStatistics>>
  /\ MDOnly

CalculateStats ==
  /\ mdStats = NotRun
  /\ mdStats' = CalculateStatsMedian(mdValues)
  /\ UNCHANGED <<mdValues, mdFieldStats, mdDescriptive, mdStatistics>>
  /\ MDOnly

GenerateStatistics ==
  /\ mdStatistics = NotRun
  /\ mdStatistics' = CalculateMedian(mdValues)
  /\ UNCHANGED <<mdValues, mdFieldStats, mdDescriptive, mdStats>>
  /\ MDOnly

MDNext ==
  \/ CalculateFieldStats
  \/ CalculateDescriptiveStats
  \/ CalculateStats
  \/ GenerateStatistics

----------------------------------------------------------------------------
(* SentimentAnalysis: useEffect(() => { analyzeSentiment() }, [field,        *)
(* customLexicons]).  A text is the sequence of its whitespace-separated     *)
(* tokens; a fraction is a record [num, den] with den > 0.                   *)

\* most tokens in a text entry
MaxWords == 3
\* most entries in field.value
MaxEntries == 1

Tokens == {"very", "not", "Good!", "bad"}
Texts == SeqsUpTo(Tokens, MaxWords)

\* an entry of field.value: a string, or a value that is no string
StringEntry(t) == [isString |-> TRUE, tokens |-> t]
NonStringEntry == [isString |-> FALSE, tokens |-> <<>>]
Entries == {StringEntry(t) : t \in Texts} \cup {NonStringEntry}

\* field.value: an array of entries, or a value that is no array
ArrayValue(es) == [isArray |-> TRUE, entries |-> es]
NotAnArray == [isArray |-> FALSE, entries |-> <<>>]
FieldValues == {ArrayValue(es) : es \in SeqsUpTo(Entries, MaxEntries)} \cup {NotAnArray}

\* the customLexicons prop: absent, or lists of words to add
CustomLexiconChoices ==
  { [positive |-> {}, negative |-> {}],
    [positive |-> {"BAD"}, negative |-> {"Awful"}] }

\* word.toLowerCase() on the words used here
ToLowerCase(w) ==
  CASE w = "BAD" -> "bad"
    [] w = "Awful" -> "awful"
    [] w = "Good!" -> "good!"
    [] OTHER -> w

\* text.toLowerCase().replace(/[^\w\s]/g, ' ').replace(/\s+/g, ' ').trim()
\* .split(/\s+/).filter(word => word.length > 0), token by token
CleanToken(tok) ==
  LET lower == ToLowerCase(tok)
  IN  CASE lower = "good!" -> <<"good">>
        [] OTHER -> <<lower>>

RECURSIVE CleanWords(_)
CleanWords(tokens) ==
  IF tokens = <<>> THEN <<>>
  ELSE CleanToken(Head(tokens)) \o CleanWords(Tail(tokens))

BasePositiveWords ==
  {"good", "great", "excellent", "amazing", "wonderful", "fantastic",
   "happy", "pleased", "delighted", "love", "awesome", "best",
   "perfect", "brilliant", "outstanding", "beautiful", "helpful",
   "impressive", "innovative", "efficient", "reliable", "recommended",
   "satisfied", "positive", "success", "successful", "easy", "enjoyed",
   "beneficial", "exceptional", "superb", "remarkable", "joy", "like",
   "admire", "pleasure", "favorite", "smooth", "quick", "fast"}

BaseNegativeWords ==
  {"bad", "poor", "terrible", "awful", "horrible", "worst",
   "sad", "angry", "upset", "hate", "disappointing", "disappointed",
   "frustrating", "useless", "waste", "difficult", "confusing",
   "unreliable", "inefficient", "expensive", "slow", "broken",
   "failed", "failure", "problem", "issue", "bug", "error",
   "complicated", "annoying", "inadequate", "inferior", "regret",
   "dislike", "unhappy", "problematic", "trouble", "hard"}

PositiveWords(custom) == BasePositiveWords \cup {ToLowerCase(w) : w \in custom.positive}
NegativeWords(custom) == BaseNegativeWords \cup {ToLowerCase(w) : w \in custom.negative}

NegationWords ==
  {"not", "no", "never", "don't", "doesn't", "didn't", "can't", "won't", "isn't"}
Intensifiers == {"very", "extremely", "absolutely", "completely", "totally", "utterly"}

\* words.slice(Math.max(0, i - 3), i) for the word at 1-based position i
PrevWords(words, i) == {words[j] : j \in {k \in 1..(i - 1) : k >= i - 3}}

\* the counts the loop over the words leaves: positiveCount, negativeCount, sentimentWords
RECURSIVE CountFrom(_, _, _, _)
CountFrom(words, i, custom, acc) ==
  IF i > Len(words) THEN acc
  ELSE
    LET word == words[i]
        prev == PrevWords(words, i)
        isNegated == prev \cap NegationWords # {}
        isIntensified == prev \cap Intensifiers # {}
        count == IF isIntensified THEN 2 ELSE 1
        afterPos ==
          IF word \in PositiveWords(custom)
            THEN [pos |-> acc.pos + (IF isNegated THEN 0 ELSE count),
                  neg |-> acc.neg + (IF isNegated THEN count ELSE 0),
                  sw |-> acc.sw + count]
            ELSE acc
        afterNeg ==
          IF word \in NegativeWords(custom)
            THEN [pos |-> afterPos.pos + (IF isNegated THEN count ELSE 0),
                  neg |-> afterPos.neg + (IF isNegated THEN 0 ELSE count),
                  sw |-> afterPos.sw + count]
            ELSE afterPos
    IN  CountFrom(words, i + 1, custom, afterNeg)

Frac(n, d) == [num |-> n, den |-> d]
FracLess(a, b) == a.num * b.den < b.num * a.den
FracAdd(a, b) == Frac(a.num * b.den + b.num * a.den, a.den * b.den)

\* the SentimentScore of one entry
ScoreEntry(entry, custom) ==
  IF ~entry.isString
    THEN [score |-> Frac(0, 1), label |-> "Neutral", confidence |-> Frac(0, 1),
          text |-> entry.tokens]
  ELSE
    LET words == CleanWords(entry.tokens)
        n == Len(words)
        c == CountFrom(words, 1, custom, [pos |-> 0, neg |-> 0, sw |-> 0])
        \* words.length === 0 ? 0 : (positiveCount - negativeCount) / Math.max(words.length, 1)
        score == IF n = 0 THEN Frac(0, 1) ELSE Frac(c.pos - c.neg, n)
        \* Math.min(sentimentRatio * 2 + Math.abs(score) * 0.5, 1)
        raw == IF n = 0 THEN Frac(0, 1) ELSE Frac(4 * c.sw + Abs(c.pos - c.neg), 2 * n)
        confidence == IF FracLess(Frac(1, 1), raw) THEN Frac(1, 1) ELSE raw
        \* Math.abs(score) < 0.05
        label == IF n = 0 \/ 100 * Abs(score.num) < 5 * score.den THEN "Neutral"
                 ELSE IF score.num > 0 THEN "Positive" ELSE "Negative"
    IN  [score |-> score, label |-> label, confidence |-> confidence, text |-> entry.tokens]

ScoreEntries(entries, custom) ==
  [i \in 1..Len(entries) |-> ScoreEntry(entries[i], custom)]

RECURSIVE SumScores(_)
SumScores(results) ==
  IF results = <<>> THEN Frac(0, 1)
  ELSE FracAdd(Head(results).score, SumScores(Tail(results)))

CountLabel(results, l) == Cardinality({i \in 1..Len(results) : results[i].label = l})

NoExample == [isNull |-> TRUE, score |-> Frac(0, 1), text |-> <<>>]
ExampleOf(r) == [isNull |-> FALSE, score |-> r.score, text |-> r.text]

\* entries.reduce((max, current) => better(current, max) ? current : max) over one label
RECURSIVE Strongest(_, _, _, _)
Strongest(results, l, sign, best) ==
  IF results = <<>> THEN best
  ELSE
    LET r == Head(results)
        next ==
          IF r.label # l THEN best
          ELSE IF best.isNull THEN ExampleOf(r)
          ELSE IF sign = 1 /\ FracLess(best.score, r.score) THEN ExampleOf(r)
          ELSE IF sign = -1 /\ FracLess(r.score, best.score) THEN ExampleOf(r)
          ELSE best
    IN  Strongest(Tail(results), l, sign, next)

StatsOf(results) ==
  LET sum == SumScores(results)
  IN  [positive |-> CountLabel(results, "Positive"),
       negative |-> CountLabel(results, "Negative"),
       neutral |-> CountLabel(results, "Neutral"),
       average |-> IF Len(results) > 0 THEN Frac(sum.num, sum.den * Len(results))
                   ELSE Frac(0, 1),
       strongestPositive |-> Strongest(results, "Positive", 1, NoExample),
       strongestNegative |-> Strongest(results, "Negative", -1, NoExample)]

InitialStats ==
  [positive |-> 0, negative |-> 0, neutral |-> 0, average |-> Frac(0, 1),
   strongestPositive |-> NoExample, strongestNegative |-> NoExample]

LexiconInfoOf(custom) ==
  [positiveWords |-> Cardinality(PositiveWords(custom)),
   negativeWords |-> Cardinality(NegativeWords(custom))]

SAIdle ==
  /\ saEffectPending = TRUE
  /\ saSentiments = <<>>
  /\ saStats = InitialStats
  /\ saLoading = TRUE
  /\ saError = NoError
  /\ saLexiconInfo = [positiveWords |-> 0, negativeWords |-> 0]

SARest ==
  /\ saField = ArrayValue(<<>>)
  /\ saCustomLexicons = [positive |-> {}, negative |-> {}]
  /\ SAIdle

SAInit ==
  /\ saField \in FieldValues
  /\ saCustomLexicons \in CustomLexiconChoices
  /\ SAIdle

\* the effect body: analyzeSentiment()
AnalyzeSentiment ==
  /\ saEffectPending
  /\ saEffectPending' = FALSE
  /\ saLexiconInfo' = LexiconInfoOf(saCustomLexicons)
  /\ IF saField.isArray
       THEN LET results == ScoreEntries(saField.entries, saCustomLexicons)
            IN  /\ saSentiments' = results
                /\ saStats' = StatsOf(results)
                /\ saError' = saError
       ELSE \* throw new Error('Input data must be an array of text entries'), caught
            /\ saError' = ErrorOf("Failed to analyze sentiment. Please check your data format.")
            /\ UNCHANGED <<saSentiments, saStats>>
  /\ saLoading' = FALSE
  /\ UNCHANGED <<saField, saCustomLexicons>>
  /\ SAOnly

SANext == AnalyzeSentiment

\* values the field prop takes over successive renders
PropFieldValues ==
  {ArrayValue(<<>>), ArrayValue(<<StringEntry(<<"Good!">>)>>),
   ArrayValue(<<StringEntry(<<"not", "Good!">>)>>), ArrayValue(<<NonStringEntry>>),
   NotAnArray}

\* a re-render with a new field / customLexicons prop: the effect is due again
SAPropsChange ==
  /\ ~saEffectPending
  /\ \E f \in PropFieldValues : \E l \in CustomLexiconChoices :
       /\ <<f, l>> # <<saField, saCustomLexicons>>
       /\ saField' = f
       /\ saCustomLexicons' = l
  /\ saEffectPending' = TRUE
  /\ UNCHANGED <<saSentiments, saStats, saLoading, saError, saLexiconInfo>>
  /\ SAOnly

\* what SentimentAnalysis returns: if (loading) ...; if (error) ...; results
SentimentView ==
  IF saLoading THEN "loading"
  ELSE IF ~saError.isNull /\ saError.message # "" THEN "error"
  ELSE "results"

SAPropsNext == AnalyzeSentiment \/ SAPropsChange

----------------------------------------------------------------------------
(* CorrelationMatrix and CorrelationCell.  A correlation value is a fraction *)
(* [num, den] with den > 0.                                                  *)

\* number of numeric fields of the matrix
NumFields == 3
\* the correlation values are the multiples of 1 / RGrid in [-1, 1]
RGrid == 20

Fields == 1..NumFields
RValues == {Frac(k, RGrid) : k \in (-RGrid)..RGrid}

Includes(s, f) == \E i \in 1..Len(s) : s[i] = f

\* prev.filter(f => f !== fieldName)
RECURSIVE Without(_, _)
Without(s, f) ==
  IF s = <<>> THEN <<>>
  ELSE IF Head(s) = f THEN Without(Tail(s), f)
  ELSE <<Head(s)>> \o Without(Tail(s), f)

\* the updater of toggleFieldSelection
Toggled(prev, fieldName) ==
  IF Includes(prev, fieldName) THEN Without(prev, fieldName) ELSE Append(prev, fieldName)

\* strength > t for a decimal threshold t = tenths / 10
StrengthAbove(value, tenths) == 10 * Abs(value.num) > tenths * value.den

\* CorrelationCell.interpretCorrelation: the strength word and the direction
\* of the description
InterpretCorrelation(value) ==
  LET direction == IF value.num > 0 THEN "positive" ELSE "negative"
  IN  IF StrengthAbove(value, 8) THEN [strength |-> "Very strong", direction |-> direction]
      ELSE IF StrengthAbove(value, 6) THEN [strength |-> "Strong", direction |-> direction]
      ELSE IF StrengthAbove(value, 4) THEN [strength |-> "Moderate", direction |-> direction]
      ELSE IF StrengthAbove(value, 2) THEN [strength |-> "Weak", direction |-> direction]
      ELSE [strength |-> "Very weak or no", direction |-> "none"]

NotRendered == [strength |-> "notRendered", direction |-> "none"]

CMIdle ==
  /\ cmSelectedFields = <<>>
  /\ cmNotified = <<>>
  /\ cmDescription = NotRendered

CMRest == cmValue = Frac(0, RGrid) /\ CMIdle

CMInit == cmValue \in RValues /\ CMIdle

\* a click on a row or column header
ToggleFieldSelection(fieldName) ==
  /\ cmSelectedFields' = Toggled(cmSelectedFields, fieldName)
  /\ cmNotified' = cmSelectedFields'
  /\ UNCHANGED <<cmValue, cmDescription>>
  /\ CMOnly

\* a click on the cell of (field1, field2):
\* toggleFieldSelection(field1); toggleFieldSelection(field2)
CellClick(field1, field2) ==
  /\ cmSelectedFields' = Toggled(Toggled(cmSelectedFields, field1), field2)
  /\ cmNotified' = cmSelectedFields'
  /\ UNCHANGED <<cmValue, cmDescription>>
  /\ CMOnly

\* the cell renders: const { description, implication } = interpretCorrelation(value)
CorrelationCellRender ==
  /\ cmDescription = NotRendered
  /\ cmDescription' = InterpretCorrelation(cmValue)
  /\ UNCHANGED <<cmSelectedFields, cmNotified, cmValue>>
  /\ CMOnly

CMNext ==
  \/ \E f \in Fields : ToggleFieldSelection(f)
  \/ \E f1 \in Fields : \E f2 \in Fields : CellClick(f1, f2)
  \/ CorrelationCellRender

----------------------------------------------------------------------------
(* TextSummarization: generateSummary *)

MaxTextLen == 3
MaxTexts == 2

\* the characters of a text: letters (of the abbreviation 'vs.'), a sentence
\* terminator, white space
TSChars == {"v", "s", ".", " "}
TSTexts == SeqsUpTo(TSChars, MaxTextLen)

\* field.value: an array of texts, or a value that is no array (a string)
TextArray(ts) == [isArray |-> TRUE, texts |-> ts]
TextValue(t) == [isArray |-> FALSE, texts |-> <<t>>]
TSFieldValues ==
  {TextArray(ts) : ts \in SeqsUpTo(SeqsUpTo(TSChars, 1), MaxTexts)}
    \cup {TextValue(t) : t \in TSTexts}

\* texts.join(' ')
RECURSIVE Join(_)
Join(ts) ==
  IF ts = <<>> THEN <<>>
  ELSE IF Len(ts) = 1 THEN Head(ts)
  ELSE Head(ts) \o <<" ">> \o Join(Tail(ts))

\* Array.isArray(field.value) ? field.value : [String(field.value)], joined
FullText(value) == Join(value.texts)

SentenceTerminators == {".", "!", "?"}

\* processedText.replace(new RegExp('vs.', 'g'), 'ABBREV7'): the '.' of the
\* pattern is the regular expression's wildcard
RECURSIVE ReplaceAbbreviations(_)
ReplaceAbbreviations(t) ==
  IF t = <<>> THEN <<>>
  ELSE IF Len(t) >= 3 /\ t[1] = "v" /\ t[2] = "s"
    THEN <<"ABBREV7">> \o ReplaceAbbreviations(SubSeq(t, 4, Len(t)))
  ELSE <<Head(t)>> \o ReplaceAbbreviations(Tail(t))

\* the length of the longest prefix of t whose characters are (inSet) or are
\* not (~inSet) sentence terminators
RECURSIVE RunLength(_, _)
RunLength(t, inSet) ==
  IF t = <<>> \/ ((Head(t) \in SentenceTerminators) # inSet) THEN 0
  ELSE 1 + RunLength(Tail(t), inSet)

\* processedText.match(/[^.!?]+[.!?]+/g) || []
RECURSIVE MatchSentences(_)
MatchSentences(t) ==
  IF t = <<>> THEN <<>>
  ELSE IF Head(t) \in SentenceTerminators THEN MatchSentences(Tail(t))
  ELSE LET body == RunLength(t, FALSE)
           rest == SubSeq(t, body + 1, Len(t))
           marks == RunLength(rest, TRUE)
       IN  IF marks = 0 THEN <<>>
           ELSE <<SubSeq(t, 1, body + marks)>>
                  \o MatchSentences(SubSeq(t, body + marks + 1, Len(t)))

\* restored.replace(new RegExp('ABBREV7', 'g'), 'vs.')
RECURSIVE RestoreAbbreviations(_)
RestoreAbbreviations(t) ==
  IF t = <<>> THEN <<>>
  ELSE IF Head(t) = "ABBREV7" THEN <<"v", "s", ".">> \o RestoreAbbreviations(Tail(t))
  ELSE <<Head(t)>> \o RestoreAbbreviations(Tail(t))

RECURSIVE RestoreAll(_)
RestoreAll(sentences) ==
  IF sentences = <<>> THEN <<>>
  ELSE <<Trim(RestoreAbbreviations(Head(sentences)))>> \o RestoreAll(Tail(sentences))

SplitSentences(text) == RestoreAll(MatchSentences(ReplaceAbbreviations(text)))

NoStats == [isNull |-> TRUE, text |-> <<>>]
\* the SummaryStats computed from fullText
StatsFor(fullText) == [isNull |-> FALSE, text |-> fullText]

\* the sentences selected for the summary, in the order of their position:
\* all of them while there are no more than maxSentences (3)
TopSentences(sentences) == sentences

TSIdle ==
  /\ tsEffectPending = TRUE
  /\ tsSummary = <<>>
  /\ tsStats = NoStats
  /\ tsLoading = TRUE
  /\ tsError = NoError
  /\ tsIsGenerating = FALSE

TSRest == tsField = TextArray(<<>>) /\ TSIdle

TSInit == tsField \in TSFieldValues /\ TSIdle

\* generateSummary without setError(null)
GenerateSummaryKeepingError ==
  LET fullText == FullText(tsField)
      sentences == SplitSentences(fullText)
  IN  /\ IF Trim(fullText) = <<>>
           THEN /\ tsError' = ErrorOf("Input text is empty")
                /\ UNCHANGED <<tsSummary, tsStats>>
         ELSE IF sentences = <<>>
           THEN /\ tsError' = ErrorOf("No valid sentences found in text")
                /\ UNCHANGED <<tsSummary, tsStats>>
         ELSE /\ tsError' = tsError
              /\ tsSummary' = TopSentences(sentences)
              /\ tsStats' = StatsFor(fullText)
      /\ tsLoading' = FALSE
      /\ tsIsGenerating' = FALSE
      /\ UNCHANGED tsField

\* generateSummary: it has no await, so it runs to its end in the call
GenerateSummary ==
  LET fullText == FullText(tsField)
      sentences == SplitSentences(fullText)
  IN  /\ IF Trim(fullText) = <<>>
           THEN \* throw new Error('Input text is empty'), caught
                /\ tsError' = ErrorOf("Input text is empty")
                /\ UNCHANGED <<tsSummary, tsStats>>
         ELSE IF sentences = <<>>
           THEN \* throw new Error('No valid sentences found in text'), caught
                /\ tsError' = ErrorOf("No valid sentences found in text")
                /\ UNCHANGED <<tsSummary, tsStats>>
         ELSE /\ tsError' = NoError
              /\ tsSummary' = TopSentences(sentences)
              /\ tsStats' = StatsFor(fullText)
      /\ tsLoading' = FALSE
      /\ tsIsGenerating' = FALSE
      /\ UNCHANGED tsField

\* useEffect(() => { generateSummary(); }, [field, maxSentences])
TSEffect ==
  /\ tsEffectPending
  /\ GenerateSummary
  /\ tsEffectPending' = FALSE
  /\ TSOnly

\* the 'Try Again' and 'Regenerate' buttons: onClick={generateSummary}
TSClickGenerate ==
  /\ ~tsEffectPending
  /\ GenerateSummary
  /\ UNCHANGED tsEffectPending
  /\ TSOnly

\* values the field prop takes in later renders: no text, a blank text, a
\* text without terminator, a sentence, the abbreviation
TSLaterFieldValues ==
  {TextArray(<<>>), TextValue(<<" ">>), TextValue(<<"v", "s">>),
   TextValue(<<"s", ".">>), TextValue(<<"v", "s", ".">>)}

\* a re-render with a new field prop: the effect is due again
TSPropsChange ==
  /\ ~tsEffectPending
  /\ \E f \in TSLaterFieldValues : f # tsField /\ tsField' = f
  /\ tsEffectPending' = TRUE
  /\ UNCHANGED <<tsSummary, tsStats, tsLoading, tsError, tsIsGenerating>>
  /\ TSOnly

TSNext == TSEffect \/ TSClickGenerate \/ TSPropsChange

----------------------------------------------------------------------------
(* FeatureComparison: handleFeatureSelect, compareFeatures *)

MaxFeatures == 3

\* the names of the fields
FeatureNames == 1..MaxFeatures

NoComparison == [isNull |-> TRUE, features |-> <<>>]
\* the object passed to setComparisonResults, built from the two features
ComparisonOf(selected) == [isNull |-> FALSE, features |-> selected]

\* the statistics helpers called by compareFeatures (calculateFieldStats,
\* determineTrend, calculateCorrelation): they return, or throw a value
HelperOutcomes == {NoThrow} \cup Thrown

\* reading .value of the undefined that numericFields.find returned
UndefinedFeatureError ==
  [isError |-> TRUE, message |-> "Cannot read properties of undefined (reading 'value')"]

SelectionError ==
  [isError |-> TRUE, message |-> "Please select exactly 2 features to compare"]

\* catch (error): error instanceof Error ? error.message : 'Comparison failed'
CompareCatch(t) == ErrorOf(IF t.isError THEN t.message ELSE "Comparison failed")

FCIdle ==
  /\ fcSelectedFeatures = <<>>
  /\ fcComparisonResults = NoComparison
  /\ fcIsAnalyzing = FALSE
  /\ fcError = NoError
  /\ fcThrown = NoThrow

FCRest == fcNumericFields = {} /\ FCIdle

FCInit == fcNumericFields \in SUBSET FeatureNames /\ FCIdle

\* the updater of handleFeatureSelect
SelectUpdate(prev, featureName) ==
  IF Includes(prev, featureName) THEN Without(prev, featureName)
  ELSE IF Len(prev) < 2 THEN Append(prev, featureName)
  ELSE <<prev[2], featureName>>

\* a click on the button of a numeric field
HandleFeatureSelect(featureName) ==
  /\ featureName \in fcNumericFields
  /\ fcSelectedFeatures' = SelectUpdate(fcSelectedFeatures, featureName)
  /\ UNCHANGED <<fcNumericFields, fcComparisonResults, fcIsAnalyzing, fcError, fcThrown>>
  /\ FCOnly

\* a re-render with a new data prop: numericFields is recomputed
FCDataChange ==
  /\ \E fs \in SUBSET FeatureNames : fs # fcNumericFields /\ fcNumericFields' = fs
  /\ UNCHANGED <<fcSelectedFeatures, fcComparisonResults, fcIsAnalyzing, fcError, fcThrown>>
  /\ FCOnly

\* what the try block of compareFeatures throws, NoThrow when it completes; h
\* is the outcome of the helper calls
CompareThrows(selected, h) ==
  IF Len(selected) # 2 THEN SelectionError
  ELSE IF \E i \in 1..2 : selected[i] \notin fcNumericFields
    THEN IF h = NoThrow THEN UndefinedFeatureError ELSE h
  ELSE h

\* compareFeatures without setError(null)
CompareFeaturesKeepingError(h) ==
  LET t == CompareThrows(fcSelectedFeatures, h)
  IN  /\ fcThrown' = t
      /\ IF t = NoThrow
           THEN /\ fcComparisonResults' = ComparisonOf(fcSelectedFeatures)
                /\ fcError' = fcError
           ELSE /\ fcError' = CompareCatch(t)
                /\ UNCHANGED fcComparisonResults
      /\ fcIsAnalyzing' = FALSE
      /\ UNCHANGED <<fcNumericFields, fcSelectedFeatures>>

\* compareFeatures: it has no await, so it runs to its end in the call
CompareFeatures(h) ==
  LET t == CompareThrows(fcSelectedFeatures, h)
  IN  /\ fcThrown' = t
      /\ IF t = NoThrow
           THEN /\ fcComparisonResults' = ComparisonOf(fcSelectedFeatures)
                /\ fcError' = NoError
           ELSE /\ fcError' = CompareCatch(t)
                /\ UNCHANGED fcComparisonResults
      /\ fcIsAnalyzing' = FALSE
      /\ UNCHANGED <<fcNumericFields, fcSelectedFeatures>>

\* the 'Compare Features' button:
\* disabled={selectedFeatures.length !== 2 || isAnalyzing}
CompareFeaturesClick ==
  /\ Len(fcSelectedFeatures) = 2 /\ ~fcIsAnalyzing
  /\ \E h \in HelperOutcomes : CompareFeatures(h)
  /\ FCOnly

\* compareFeatures called where the button's guard does not hold: the
\* function's own check of selectedFeatures.length decides
CompareFeaturesCall ==
  /\ Len(fcSelectedFeatures) # 2
  /\ \E h \in HelperOutcomes : CompareFeatures(h)
  /\ FCOnly

FCNext ==
  \/ \E f \in FeatureNames : HandleFeatureSelect(f)
  \/ FCDataChange
  \/ CompareFeaturesClick
  \/ CompareFeaturesCall

----------------------------------------------------------------------------
(* AnalysisEngine: constructor, validateFields, analyze *)

MaxEngineFields == 2

\* an element of field.value: a number, or a value that is none (NaN, a string)
NumberEntry(n) == [isNumber |-> TRUE, n |-> n]
NonNumberEntry == [isNumber |-> FALSE, n |-> 0]

\* a DataField: name and type ("" when missing), value an array or not
EngineField(name, type, isArray, value) ==
  [name |-> name, type |-> type, isArray |-> isArray, value |-> value]

EngineFieldChoices ==
  {EngineField(name, type, TRUE, value) :
     name \in {"", "a"}, type \in {"", "number", "string"},
     value \in {<<>>, <<NumberEntry(2), NumberEntry(1)>>, <<NumberEntry(1), NonNumberEntry>>}}
  \cup {EngineField(name, type, FALSE, <<>>) :
          name \in {"", "a"}, type \in {"", "number", "string"}}

\* the fields argument: missing (undefined), or an array of fields
MissingFields == [isMissing |-> TRUE, list |-> <<>>]
FieldList(fs) == [isMissing |-> FALSE, list |-> fs]
EngineInputs ==
  {MissingFields} \cup {FieldList(fs) : fs \in SeqsUpTo(EngineFieldChoices, MaxEngineFields)}

\* createError(code, message): an Error carrying the code
NoEngineError == [isNull |-> TRUE, code |-> "", text |-> "", names |-> <<>>]
CreateError(code, text, names) ==
  [isNull |-> FALSE, code |-> code, text |-> text, names |-> names]

\* this.fields.filter(field => !field.name || !field.type || !Array.isArray(field.value))
RECURSIVE InvalidFieldNames(_)
InvalidFieldNames(fs) ==
  IF fs = <<>> THEN <<>>
  ELSE LET f == Head(fs)
       IN  (IF f.name = "" \/ f.type = "" \/ ~f.isArray THEN <<f.name>> ELSE <<>>)
             \o InvalidFieldNames(Tail(fs))

\* validateFields that does not look at field.value
RECURSIVE NamesOfUnnamedOrUntyped(_)
NamesOfUnnamedOrUntyped(fs) ==
  IF fs = <<>> THEN <<>>
  ELSE LET f == Head(fs)
       IN  (IF f.name = "" \/ f.type = "" THEN <<f.name>> ELSE <<>>)
             \o NamesOfUnnamedOrUntyped(Tail(fs))

ValidateFieldsIgnoringValue(fields) ==
  IF fields.isMissing \/ Len(fields.list) = 0
    THEN CreateError("VALIDATION_ERROR", "No fields provided for analysis", <<>>)
  ELSE IF Len(NamesOfUnnamedOrUntyped(fields.list)) > 0
    THEN CreateError("VALIDATION_ERROR", "Invalid fields found: ",
                     NamesOfUnnamedOrUntyped(fields.list))
  ELSE NoEngineError

\* validateFields: the error it throws, NoEngineError when it returns
ValidateFields(fields) ==
  IF fields.isMissing \/ Len(fields.list) = 0
    THEN CreateError("VALIDATION_ERROR", "No fields provided for analysis", <<>>)
  ELSE IF Len(InvalidFieldNames(fields.list)) > 0
    THEN CreateError("VALIDATION_ERROR", "Invalid fields found: ",
                     InvalidFieldNames(fields.list))
  ELSE NoEngineError

\* this.fields.filter(f => f.type === 'number')
RECURSIVE NumericFields(_)
NumericFields(fs) ==
  IF fs = <<>> THEN <<>>
  ELSE (IF Head(fs).type = "number" THEN <<Head(fs)>> ELSE <<>>) \o NumericFields(Tail(fs))

RECURSIVE NumbersOf(_)
NumbersOf(value) ==
  IF value = <<>> THEN <<>> ELSE <<Head(value).n>> \o NumbersOf(Tail(value))

\* calculateDescriptiveStats: the error thrown at the first field without
\* values or with a value that is no number, NoEngineError when it returns
RECURSIVE DescriptiveStatsError(_)
DescriptiveStatsError(fs) ==
  IF fs = <<>> THEN NoEngineError
  ELSE LET f == Head(fs)
       IN  IF Len(f.value) = 0
             THEN CreateError("VALIDATION_ERROR", "has no valid data", <<f.name>>)
           ELSE IF \E i \in 1..Len(f.value) : ~f.value[i].isNumber
             THEN CreateError("VALIDATION_ERROR", "contains non-numeric values", <<f.name>>)
           ELSE DescriptiveStatsError(Tail(fs))

\* the medians calculateDescriptiveStats returns, field by field
RECURSIVE DescriptiveMedians(_)
DescriptiveMedians(fs) ==
  IF fs = <<>> THEN <<>>
  ELSE <<CalculateDescriptiveStatsMedian(NumbersOf(Head(fs).value))>>
         \o DescriptiveMedians(Tail(fs))

Categories == {"descriptive", "default"}

NotCalled == [status |-> "none", error |-> NoEngineError, medians |-> <<>>]
Resolved(medians) == [status |-> "resolved", error |-> NoEngineError, medians |-> medians]
\* catch (error): throw createError('ANALYSIS_ERROR', error.message)
Rejected(inner) ==
  [status |-> "rejected",
   error |-> CreateError("ANALYSIS_ERROR", inner.text, inner.names),
   medians |-> <<>>]

AEIdle ==
  /\ aeState = "new"
  /\ aeError = NoEngineError
  /\ aeCategory = "default"
  /\ aeOutcome = NotCalled

AERest == aeFields = MissingFields /\ AEIdle

AEInit == aeFields \in EngineInputs /\ AEIdle

\* new NetworkAnalysis(fields), which runs before validateFields: it keeps
\* the fields and throws nothing
NetworkAnalysisThrows(fields) == FALSE

\* new AnalysisEngine(fields)
Constructor ==
  /\ aeState = "new"
  /\ aeError' = IF NetworkAnalysisThrows(aeFields)
                  THEN CreateError("", "network analysis failed", <<>>)
                  ELSE ValidateFields(aeFields)
  /\ aeState' = IF ~NetworkAnalysisThrows(aeFields) /\ ValidateFields(aeFields) = NoEngineError
                  THEN "constructed" ELSE "failed"
  /\ UNCHANGED <<aeFields, aeCategory, aeOutcome>>
  /\ AEOnly

\* engine.analyze(category); networkFails: networkAnalysis.analyze() throws
Analyze(category, networkFails) ==
  /\ aeState = "constructed"
  /\ aeOutcome = NotCalled
  /\ aeCategory' = category
  /\ LET numericFields == NumericFields(aeFields.list)
         inner == DescriptiveStatsError(numericFields)
     IN  aeOutcome' =
           IF inner # NoEngineError THEN Rejected(inner)
           ELSE IF category = "default" /\ networkFails
             THEN Rejected(CreateError("", "network analysis failed", <<>>))
           ELSE Resolved(DescriptiveMedians(numericFields))
  /\ UNCHANGED <<aeFields, aeState, aeError>>
  /\ AEOnly

AENext ==
  \/ Constructor
  \/ \E category \in Categories : \E networkFails \in BOOLEAN : Analyze(category, networkFails)

----------------------------------------------------------------------------
(* Specifications *)

Init == NLInit /\ DAInit /\ BMInit /\ MDRest /\ SARest /\ CMRest /\ TSRest /\ FCRest /\ AERest

SpecNLQ == Init /\ [][NLNext]_vars

\* the continuation of a settled promise is a queued microtask: it runs
SpecNLQFair == Init /\ [][NLNext]_vars /\ WF_vars(NLContinue)

AsyncNext == BMNext \/ DANext

SpecAsync == Init /\ [][AsyncNext]_vars

InitMedian == NLInit /\ DAInit /\ BMInit /\ MDInit /\ SARest /\ CMRest /\ TSRest /\ FCRest /\ AERest

SpecMedian == InitMedian /\ [][MDNext]_vars

InitSentiment == NLInit /\ DAInit /\ BMInit /\ MDRest /\ SAInit /\ CMRest /\ TSRest /\ FCRest /\ AERest

SpecSentiment == InitSentiment /\ [][SANext]_vars

InitSentimentProps ==
  /\ NLInit /\ DAInit /\ BMInit /\ MDRest /\ CMRest /\ TSRest /\ FCRest /\ AERest
  /\ saField \in PropFieldValues
  /\ saCustomLexicons \in CustomLexiconChoices
  /\ SAIdle

SpecSentimentProps == InitSentimentProps /\ [][SAPropsNext]_vars

InitSummarization == NLInit /\ DAInit /\ BMInit /\ MDRest /\ SARest /\ CMRest /\ TSInit /\ FCRest /\ AERest

SpecSummarization == InitSummarization /\ [][TSNext]_vars

InitComparison ==
  /\ NLInit /\ DAInit /\ BMInit /\ MDRest /\ SARest /\ CMRest /\ TSRest
  /\ FCInit /\ AERest

SpecComparison == InitComparison /\ [][FCNext]_vars

InitEngine ==
  /\ NLInit /\ DAInit /\ BMInit /\ MDRest /\ SARest /\ CMRest /\ TSRest
  /\ FCRest /\ AEInit

SpecEngine == InitEngine /\ [][AENext]_vars

InitCorrelation == NLInit /\ DAInit /\ BMInit /\ MDRest /\ SARest /\ CMInit /\ TSRest /\ FCRest /\ AERest

SpecCorrelation == InitCorrelation /\ [][CMNext]_vars

----------------------------------------------------------------------------
(* Claims about the natural-language query section *)


\* C1: when processNaturalLanguageQuery rejects, handleQuery sets response to
\* {error: m}, m the Error's message or 'Failed to process query' for a value
\* that is no Error, and NLQueryResponse renders the error view for it; when
\* it resolves, response is the resolved result.
C1_RejectionShownAsError ==
  \A r \in nlRuns : r.status = "responded" =>
    /\ r.outcome = "rejected" =>
         /\ nlResponse =
              ErrorResponse(IF r.thrown.isError THEN r.thrown.message
                            ELSE "Failed to process query")
         /\ NLQueryResponse(nlResponse) = "error"
    /\ r.outcome = "resolved" => nlResponse = r.result

\* C2: isLoading is true while the promise of a handleQuery call is pending,
\* it is cleared only by a call whose response has been written, and once the
\* promise has settled isLoading eventually becomes false.
C2_LoadingBracketsQuery ==
  /\ [](\A r \in nlRuns : r.status = "pending" => nlIsLoading)
  /\ [][(nlIsLoading /\ ~nlIsLoading') =>
          \E r \in nlRuns : r.status = "responded" /\ r \notin nlRuns'
                            /\ nlLastApplied = r.id]_vars
  /\ ((\E r \in nlRuns : r.status \in {"resolved", "rejected"}) ~> ~nlIsLoading)

C2_Witness == nlLastApplied >= 1 /\ ~nlIsLoading /\ nlRuns = {} /\ nlResponse.hasError

\* C10: handleSubmit calls onQuery only with a non-empty trimmed query and
\* only while isLoading is false; at most one query is in flight and the
\* responses are applied in submission order.
C10_OneQueryInFlight ==
  /\ [](\A r \in nlRuns : r.query # <<>> /\ Trim(r.query) = r.query
                          /\ Head(r.query) # " " /\ r.query[Len(r.query)] # " ")
  /\ [](Cardinality(nlRuns) <= 1)
  /\ [][nlNextId' # nlNextId => ~nlIsLoading /\ ~nlRendered.isLoading]_vars
  /\ [][nlLastApplied' >= nlLastApplied]_vars

C10_Witness ==
  /\ nlLastApplied = 1
  /\ \E r \in nlRuns : r.id = 2 /\ r.status = "pending"
  /\ nlQuery # Trim(nlQuery)

----------------------------------------------------------------------------
(* Claims about the effect-driven analysis runs *)

DARunning == \E d \in DataIds : daRuns[d] = "pending"
BMRunning == \E d \in DataIds : bmRuns[d] = "waiting"

\* C3 (as stated): once the effect for the current data prop has returned, the
\* result state already reflects that data and no part of the run is pending.
C3_EffectCompletesSynchronously ==
  /\ ~daEffectPending =>
       /\ ~DARunning
       /\ daRuns[daData] = "finishedOk" =>
            daAnalysis = ResultFrom(daData) /\ daCleanedData = ResultFrom(daData)
  /\ ~bmEffectPending =>
       /\ ~BMRunning
       /\ bmAnalysisResults = ResultFrom(bmData)

\* C3 (amended): when the effect for a data prop returns, the run it started
\* is still pending with the loading flag set and the result state untouched;
\* the result state is written only by a later step of a pending run, from
\* the data that run was started for.
C3_EffectLeavesRunPending ==
  /\ [][(daEffectPending /\ ~daEffectPending') =>
          /\ daRuns'[daData] = "pending" /\ daIsLoading'
          /\ daAnalysis' = daAnalysis /\ daCleanedData' = daCleanedData]_vars
  /\ [][(bmEffectPending /\ ~bmEffectPending') =>
          /\ bmRuns'[bmData] = "waiting" /\ bmIsAnalyzing'
          /\ bmAnalysisResults' = bmAnalysisResults]_vars
  /\ [][(daAnalysis' # daAnalysis \/ daCleanedData' # daCleanedData) =>
          \E d \in DataIds :
             /\ daRuns[d] = "pending" /\ daRuns'[d] # "pending"
             /\ daCleanedData' = ResultFrom(d)
             /\ daAnalysis' \in {daAnalysis, ResultFrom(d)}]_vars
  /\ [][bmAnalysisResults' # bmAnalysisResults =>
          \E d \in DataIds :
             /\ bmRuns[d] = "waiting" /\ bmRuns'[d] = "finished"
             /\ bmAnalysisResults' = ResultFrom(d)]_vars

C3_Witness ==
  /\ ~daEffectPending /\ daRuns[daData] = "pending" /\ daAnalysis # ResultFrom(daData)
  /\ ~bmEffectPending /\ bmRuns[bmData] = "waiting" /\ bmAnalysisResults # ResultFrom(bmData)
  /\ daData > 1 /\ bmData > 1

\* C8: the loading flag is true in every state in which a started analysis
\* run has not finished.
C8_LoadingWhileRunInFlight ==
  /\ DARunning => daIsLoading
  /\ BMRunning => bmIsAnalyzing

\* C9: once every started processData run has settled, analysis and
\* cleanedData are the ones computed from the most recent data prop (taken
\* where the run for that data succeeded).
C9_LatestDataWins ==
  (/\ ~daEffectPending
   /\ ~DARunning
   /\ daRuns[daData] = "finishedOk")
  => (daAnalysis = ResultFrom(daData) /\ daCleanedData = ResultFrom(daData))

----------------------------------------------------------------------------
(* Claims about the statistics routines *)

\* the reference median, doubled: the middle element of the sorted list when
\* the length is odd, the sum of the two middle elements when it is even
ReferenceMedianTwice(values) ==
  LET sorted == SortAscending(values)
      n == Len(sorted)
  IN  IF n % 2 = 1 THEN 2 * sorted[(n + 1) \div 2]
      ELSE sorted[n \div 2] + sorted[(n \div 2) + 1]

\* C4: on every non-empty list of numbers each of the four median routines
\* returns the reference median, so all four agree.
C4_MediansMatchReference ==
  mdValues # <<>> =>
    \A m \in {mdFieldStats, mdDescriptive, mdStats, mdStatistics} :
      m # NotRun => m = MedianValue(ReferenceMedianTwice(mdValues))

\* C5: every entry's score (positiveCount - negativeCount) / wordCount lies in
\* [-1, 1], and so does the average score.
C5_ScoreWithinRange ==
  ~saEffectPending =>
    /\ \A i \in 1..Len(saSentiments) :
         Abs(saSentiments[i].score.num) <= saSentiments[i].score.den
    /\ Abs(saStats.average.num) <= saStats.average.den

\* C11: whenever the most recent analyzeSentiment run completed without
\* throwing (field.value is an array), error is null and the results view,
\* not the 'Analysis Error' view, is rendered.
C11_ErrorClearedAfterSuccess ==
  (~saEffectPending /\ saField.isArray) =>
    (saError = NoError /\ SentimentView = "results")

----------------------------------------------------------------------------
(* Claims about the correlation matrix *)

BothSelected(s, f1, f2) == Includes(s, f1) /\ Includes(s, f2)

\* C6: a click on the cell of two different fields, not both selected before
\* it, leaves both of them selected.
C6_CellClickSelectsPair ==
  [][\A f1 \in Fields : \A f2 \in Fields :
       (f1 # f2 /\ ~BothSelected(cmSelectedFields, f1, f2) /\ CellClick(f1, f2))
         => BothSelected(cmSelectedFields', f1, f2)]_vars

\* C7: the description of a correlation value r falls in the band of the
\* Interpretation Guide: 'Very strong' exactly when |r| >= 0.8, 'Strong' when
\* 0.6 <= |r| < 0.8, 'Moderate' when 0.4 <= |r| < 0.6, a weak or
\* no-correlation description when |r| < 0.4.
C7_DescriptionMatchesGuide ==
  cmDescription # NotRendered =>
    LET a == Abs(cmValue.num)
        d == cmValue.den
    IN  /\ cmDescription.strength = "Very strong" <=> 10 * a >= 8 * d
        /\ cmDescription.strength = "Strong" <=> (10 * a >= 6 * d /\ 10 * a < 8 * d)
        /\ cmDescription.strength = "Moderate" <=> (10 * a >= 4 * d /\ 10 * a < 6 * d)
        /\ cmDescription.strength \in {"Weak", "Very weak or no"} <=> 10 * a < 4 * d

----------------------------------------------------------------------------
(* Claims about TextSummarization *)

\* the text has a sentence terminated by '.', '!' or '?': a character that is
\* no terminator, followed by a terminator
HasTerminatedSentence(text) ==
  \E i \in 1..(Len(text) - 1) :
     text[i] \notin SentenceTerminators /\ text[i + 1] \in SentenceTerminators

KeepsSummaryAndFlagsDown ==
  /\ tsSummary' = tsSummary /\ tsStats' = tsStats
  /\ ~tsLoading' /\ ~tsIsGenerating'

\* C12: a generateSummary run on a blank joined text ends with error 'Input
\* text is empty', a run on a text without a terminated sentence with 'No
\* valid sentences found in text'; in both cases summary and stats keep their
\* values and loading and isGenerating are false; a run that does not throw
\* leaves error null, whatever error held before.
C12_SummaryErrorsReported ==
  [][(TSEffect \/ TSClickGenerate) =>
       LET fullText == FullText(tsField)
       IN  /\ Trim(fullText) = <<>> =>
                (tsError' = ErrorOf("Input text is empty") /\ KeepsSummaryAndFlagsDown)
           /\ (Trim(fullText) # <<>> /\ ~HasTerminatedSentence(fullText)) =>
                (/\ tsError' = ErrorOf("No valid sentences found in text")
                 /\ KeepsSummaryAndFlagsDown)
           /\ tsError' \in {NoError, ErrorOf("Input text is empty"),
                            ErrorOf("No valid sentences found in text")}
           /\ (tsSummary' # tsSummary \/ tsStats' # tsStats) => tsError' = NoError
           /\ (tsError' = NoError) =>
                (tsStats' = StatsFor(fullText) /\ tsSummary' # <<>> /\ ~tsLoading')]_vars

C12_Witness ==
  /\ ~tsEffectPending /\ ~tsLoading
  /\ tsError = ErrorOf("No valid sentences found in text")
  /\ tsSummary # <<>> /\ tsStats # NoStats

----------------------------------------------------------------------------
(* Claims about FeatureComparison *)

\* C13: a compareFeatures run on a selection that does not hold exactly 2
\* names ends with error 'Please select exactly 2 features to compare'; a run
\* in which a step throws ends with error set to the thrown message and
\* comparisonResults unchanged; a run that does not throw leaves error null
\* and replaces comparisonResults; isAnalyzing is false when a run ends.
C13_CompareErrorsReported ==
  [][(CompareFeaturesClick \/ CompareFeaturesCall) =>
       /\ ~fcIsAnalyzing'
       /\ Len(fcSelectedFeatures) # 2 =>
            /\ fcError' = ErrorOf("Please select exactly 2 features to compare")
            /\ fcComparisonResults' = fcComparisonResults
       /\ fcThrown' # NoThrow =>
            /\ fcError' # NoError
            /\ fcThrown'.isError => fcError' = ErrorOf(fcThrown'.message)
            /\ fcComparisonResults' = fcComparisonResults
       /\ fcThrown' = NoThrow =>
            /\ fcError' = NoError
            /\ fcComparisonResults' = ComparisonOf(fcSelectedFeatures)]_vars

C13_Witness ==
  /\ Len(fcSelectedFeatures) # 2
  /\ fcThrown = SelectionError
  /\ fcError = ErrorOf("Please select exactly 2 features to compare")
  /\ fcComparisonResults # NoComparison

----------------------------------------------------------------------------
(* Claims about AnalysisEngine *)

\* a numeric field whose value array is empty or holds a value that is no number
HasUnusableNumericField ==
  \E i \in 1..Len(aeFields.list) :
     LET f == aeFields.list[i]
     IN  /\ f.type = "number"
         /\ (Len(f.value) = 0 \/ \E j \in 1..Len(f.value) : ~f.value[j].isNumber)

\* C14: analyze, for category 'descriptive' or the default, on a numeric field
\* whose value array is empty or holds a non-number rejects with an error
\* whose code is VALIDATION_ERROR.
C14_RejectsWithValidationError ==
  (aeOutcome # NotCalled /\ HasUnusableNumericField) =>
    (aeOutcome.status = "rejected" /\ aeOutcome.error.code = "VALIDATION_ERROR")

====
